---- MODULE Spec2Model ----
(***************************************************************************)
(* Model of Pinger.py: the ICMP Echo packet codec (class ICMP_Echo), the   *)
(* RFC 1071 checksum, and the single request/reply exchange (sendto, ping).*)
(*                                                                         *)
(* Three specifications share the module:                                  *)
(*   Spec      the codec: construct, assign, set_checksum, bytes(),        *)
(*             check_checksum(), from_bytes()                              *)
(*   SpecSend  one call of ping(target), stepped through sendto            *)
(*   SpecSum   the summation loop of calculate_checksum on long payloads   *)
(***************************************************************************)
EXTENDS Integers, Sequences, FiniteSets, TLC

VARIABLES
    \* ---- codec (Spec)
    msg,        \* the ICMP_Echo object under test
    op,         \* the last operation called on it
    rx,         \* the buffer last handed to from_bytes
    ret,        \* what the last operation returned or raised
    stale,      \* whether the stored checksum was out of date when it was called
    \* ---- exchange (SpecSend)
    pc,         \* position inside ping / sendto
    target,     \* ping's argument
    Echo,       \* ping's local: the request
    sock,       \* the raw socket of the call: "none", "open", "closed"
    wire,       \* icmp_payload, the bytes handed to sock.send
    received,   \* what sock.recv returned
    t1, t2,     \* the two perf_counter readings
    cause,      \* what the network did to this call
    outcome,    \* what sendto reported to its caller
    pingOutcome,\* what ping reported to its caller
    \* ---- checksum loop (SpecSum)
    sumPc,      \* position inside calculate_checksum
    sumMsg,     \* the message being summed; its payload is one byte repeated
    sumLen,     \* payload bytes read so far; len(self.data) once the loop is left
    idx,        \* the loop variable i
    sHi, sLo,   \* the running sum s, as s = sHi * 65536 + sLo
    cksum       \* the value calculate_checksum returned

codecVars == <<msg, op, rx, ret, stale>>
sendVars  == <<pc, target, Echo, sock, wire, received, t1, t2, cause, outcome, pingOutcome>>
sumVars   == <<sumPc, sumMsg, sumLen, idx, sHi, sLo, cksum>>
vars      == <<codecVars, sendVars, sumVars>>

(***************************************************************************)
(* Bounds of the model.                                                    *)
(***************************************************************************)
\* longest payload of the codec specification
MaxLen == 3
\* largest first perf_counter reading
MaxClock == 1
\* largest round-trip time, in clock ticks
MaxElapsed == 2
\* longest payload, in bytes, of the long message of the checksum loop
BigLen == 131076
\* longest payload, in bytes, of the other messages of the checksum loop
SmallLen == 5

\* Python's None, and a value that is present, where a name may hold either
None == <<>>
Some(v) == <<v>>

(***************************************************************************)
(* struct.pack / struct.unpack, network byte order.                        *)
(***************************************************************************)
\* a "H" field written low byte first
PackH_le(v) == <<v % 256, v \div 256>>

\* struct.pack("!H", v)
PackH(v) == <<v \div 256, v % 256>>

\* struct.unpack("!H", <<a, b>>)
UnpackH(a, b) == a * 256 + b

\* ICMP_Echo_Type.<name>.value
TypeValue(t) == IF t = "ECHO" THEN 8 ELSE 0

\* an enum lookup that maps every unknown value to REPLY
ICMP_Echo_Type_lenient(v) == IF v = 8 THEN "ECHO" ELSE "REPLY"

\* ICMP_Echo_Type(v): the member with that value, ValueError when there is none
ICMP_Echo_Type(v) ==
    IF v = 8 THEN "ECHO" ELSE IF v = 0 THEN "REPLY" ELSE "ValueError"

\* struct.pack(f"!BBHHH{len(data)}s", type, code, checksum, identifier, sequence, data)
Pack(tv, code, checksum, identifier, sequence, data) ==
    <<tv, code>> \o PackH(checksum) \o PackH(identifier) \o PackH(sequence) \o data

(***************************************************************************)
(* calculate_checksum                                                      *)
(***************************************************************************)
\* one folding step only
FoldOnce(hi, lo) == 65535 - ((hi + lo) % 65536)

\* lines 58-60 on s = hi * 65536 + lo:
\*   s = (s >> 16) + (s & 0xFFFF); s += s >> 16; return ~s & 0xFFFF
FoldTwice(hi, lo) ==
    LET s1 == hi + lo
        s2 == s1 + (s1 \div 65536)
    IN  65535 - (s2 % 65536)

\* lines 51-55: the sum of the 16-bit words of an even-length buffer,
\* from (1-based) position i on
RECURSIVE SumWords(_, _)
SumWords(payload, i) ==
    IF i > Len(payload) THEN 0
    ELSE payload[i] * 256 + payload[i + 1] + SumWords(payload, i + 2)

\* lines 44-48: the serialization with a zero checksum, padded to even length
ZeroPadded(m) ==
    LET payload == Pack(TypeValue(m.icmp_type), m.code, 0, m.identifier, m.sequence, m.data)
    IN  IF Len(payload) % 2 = 1 THEN payload \o <<0>> ELSE payload

calculate_checksum(m) ==
    LET s == SumWords(ZeroPadded(m), 1)
    IN  FoldTwice(s \div 65536, s % 65536)

check_checksum(m) == m.checksum = calculate_checksum(m)

\* set_checksum(override): override = None recomputes
set_checksum(m, override) ==
    IF override # None
    THEN [m EXCEPT !.checksum = override[1]]
    ELSE [m EXCEPT !.checksum = calculate_checksum(m)]

\* __init__
ICMP_Echo_init(icmp_type, code, identifier, sequence, data) ==
    set_checksum([icmp_type |-> icmp_type, code |-> code, checksum |-> 0,
                  identifier |-> identifier, sequence |-> sequence,
                  data |-> data, response_time |-> -1], None)

\* a serialization that trusts the stored checksum
ICMP_Echo_bytes_stale(m) ==
    [self |-> m,
     out  |-> Pack(TypeValue(m.icmp_type), m.code, m.checksum, m.identifier, m.sequence, m.data)]

\* __bytes__: the object after the call, and the bytes returned
ICMP_Echo_bytes(m) ==
    LET m2 == set_checksum(m, None)
    IN  [self |-> m2,
         out  |-> Pack(TypeValue(m2.icmp_type), m2.code, m2.checksum,
                       m2.identifier, m2.sequence, m2.data)]

\* an exception propagating out of a call: the caller gets no value
Raised(e) == [exc |-> e]

\* a normal return
Returned(v) == [exc |-> "none", value |-> v]

\* a decoder that reads the sequence number before the identifier
from_bytes_swapped(packet) ==
    IF Len(packet) < 8 THEN Raised("struct.error")
    ELSE IF ICMP_Echo_Type(packet[1]) = "ValueError" THEN Raised("ValueError")
    ELSE Returned(ICMP_Echo_init(ICMP_Echo_Type(packet[1]), packet[2],
                                 UnpackH(packet[7], packet[8]),
                                 UnpackH(packet[5], packet[6]),
                                 SubSeq(packet, 9, Len(packet))))

\* from_bytes: struct.unpack of packet[:8] raises struct.error on a short
\* buffer; ICMP_Echo_Type raises ValueError; the unpacked checksum is dropped
\* and __init__ computes a new one
from_bytes(packet) ==
    IF Len(packet) < 8 THEN Raised("struct.error")
    ELSE LET type_val   == packet[1]
             code       == packet[2]
             checksum   == UnpackH(packet[3], packet[4])
             identifier == UnpackH(packet[5], packet[6])
             sequence   == UnpackH(packet[7], packet[8])
             data       == SubSeq(packet, 9, Len(packet))
         IN  IF ICMP_Echo_Type(type_val) = "ValueError" THEN Raised("ValueError")
             ELSE Returned(ICMP_Echo_init(ICMP_Echo_Type(type_val), code,
                                          identifier, sequence, data))

(***************************************************************************)
(* Spec: the codec.  Field values are drawn from small sets that keep the  *)
(* byte order, the carries of the sum and the odd-length padding visible.  *)
(***************************************************************************)
Types        == {"ECHO", "REPLY"}
Codes        == {0, 255}
Identifiers  == {258, 65535}
SequenceNums == {1, 772}
PayloadBytes == {97, 255}
Payloads     == UNION {[1..n -> PayloadBytes] : n \in 0..MaxLen}
Overrides    == {Some(0), Some(4660)}
RxBytes      == {0, 3, 8, 255}

\* buffers that may come back for the serialization b: b itself, b with one
\* of its first four bytes replaced, and every proper prefix of b
RxBuffers(b) ==
    {b}
    \cup {[b EXCEPT ![k] = v] : k \in 1..4, v \in RxBytes}
    \cup {SubSeq(b, 1, n) : n \in 0..(Len(b) - 1)}

IdleCodec ==
    /\ msg = ICMP_Echo_init("ECHO", 0, 258, 1, <<>>)
    /\ op = "init" /\ rx = <<>> /\ ret = Returned(None) /\ stale = FALSE

IdleSend ==
    /\ pc = "idle" /\ target = None /\ Echo = None /\ sock = "none"
    /\ wire = <<>> /\ received = <<>> /\ t1 = 0 /\ t2 = 0
    /\ cause = "none" /\ outcome = Returned(None) /\ pingOutcome = Returned(None)

IdleSum ==
    /\ sumPc = "idle" /\ sumMsg = None /\ sumLen = 0 /\ idx = 0 /\ sHi = 0 /\ sLo = 0 /\ cksum = 0

Init ==
    /\ \E t \in Types, c \in Codes, i \in Identifiers, q \in SequenceNums, d \in Payloads :
          msg = ICMP_Echo_init(t, c, i, q, d)
    /\ op = "init" /\ rx = <<>> /\ ret = Returned(None) /\ stale = FALSE
    /\ IdleSend /\ IdleSum

\* message.<field> = value: no method runs, the checksum is left as it is
Assign ==
    /\ \/ \E t \in Types        : msg' = [msg EXCEPT !.icmp_type = t]
       \/ \E c \in Codes        : msg' = [msg EXCEPT !.code = c]
       \/ \E i \in Identifiers  : msg' = [msg EXCEPT !.identifier = i]
       \/ \E q \in SequenceNums : msg' = [msg EXCEPT !.sequence = q]
       \/ \E d \in Payloads     : msg' = [msg EXCEPT !.data = d]
    /\ op' = "assign" /\ rx' = <<>> /\ ret' = Returned(None)
    /\ stale' = ~check_checksum(msg)
    /\ UNCHANGED <<sendVars, sumVars>>

\* message.set_checksum(override)
SetChecksum ==
    /\ \E o \in Overrides \cup {None} : msg' = set_checksum(msg, o)
    /\ op' = "set_checksum" /\ rx' = <<>> /\ ret' = Returned(None)
    /\ stale' = ~check_checksum(msg)
    /\ UNCHANGED <<sendVars, sumVars>>

\* message.check_checksum()
CheckChecksum ==
    /\ ret' = Returned(check_checksum(msg))
    /\ op' = "check_checksum" /\ rx' = <<>>
    /\ stale' = ~check_checksum(msg)
    /\ UNCHANGED <<msg, sendVars, sumVars>>

\* bytes(message)
Bytes ==
    /\ msg' = ICMP_Echo_bytes(msg).self
    /\ ret' = Returned(ICMP_Echo_bytes(msg).out)
    /\ op' = "bytes" /\ rx' = <<>>
    /\ stale' = ~check_checksum(msg)
    /\ UNCHANGED <<sendVars, sumVars>>

\* ICMP_Echo.from_bytes(buf) on what came back for the bytes just serialized;
\* a class method, the message is not touched
FromBytes ==
    /\ op = "bytes"
    /\ \E buf \in RxBuffers(ret.value) :
          /\ rx' = buf
          /\ ret' = from_bytes(buf)
    /\ op' = "from_bytes"
    /\ stale' = ~check_checksum(msg)
    /\ UNCHANGED <<msg, sendVars, sumVars>>

Next ==
    \/ Assign
    \/ SetChecksum
    \/ CheckChecksum
    \/ Bytes
    \/ FromBytes

Spec == Init /\ [][Next]_vars

(***************************************************************************)
(* SpecSend: one call of ping(target), stepped through sendto.  The network *)
(* and the operating system choose what each socket call does.             *)
(***************************************************************************)
Targets == {"1.1.1.1", "localhost"}

\* the default payload of __init__: b"abcdefghijklmnopqrstuvwabcdefghi"
DefaultData == [k \in 1..32 |-> IF k <= 23 THEN 96 + k ELSE 96 + (k - 23)]

\* ICMP_Echo(): type ECHO, code 0, identifier 1, sequence 1, the default payload
DefaultEcho == ICMP_Echo_init("ECHO", 0, 1, 1, DefaultData)

\* an IPv4 header without options, as the raw socket delivers it before the
\* ICMP message
IpHeader == [k \in 1..20 |-> IF k = 1 THEN 69 ELSE 0]

\* the serialization of a message built from the given fields
Serialized(t, c, i, q, d) == ICMP_Echo_bytes(ICMP_Echo_init(t, c, i, q, d)).out

\* datagrams sock.recv may return while request req is outstanding
Datagrams(req) ==
    LET reply == Serialized("REPLY", 0, req.identifier, req.sequence, req.data)
    IN  { \* the peer's Echo Reply
          IpHeader \o reply,
          \* the same reply with its checksum damaged in transit
          IpHeader \o [reply EXCEPT ![3] = (reply[3] + 1) % 256],
          \* the request itself, as seen when the target is the local host
          IpHeader \o ICMP_Echo_bytes(req).out,
          \* the peer's reply to another session's probe
          IpHeader \o Serialized("REPLY", 0, req.identifier + 1, req.sequence + 6, req.data),
          \* Destination Unreachable (type 3, code 1)
          IpHeader \o <<3, 1, 252, 254, 0, 0, 0, 0>> \o IpHeader \o <<8, 0, 0, 0, 0, 1, 0, 1>>,
          \* an ICMP message cut short: 23 bytes in all
          IpHeader \o <<0, 0, 255>>,
          \* a datagram shorter than the IP header
          <<69, 0, 0, 3>> }

\* the local sock when sendto returns: nothing in sendto closes it, so
\* whether it is closed by then is up to the interpreter's finalisation of
\* the unreferenced socket object
Finalized(s) == IF s = "open" THEN {"open", "closed"} ELSE {s}

\* lines 89-92: what sendto reports when recv times out
OnTimeout == Returned(None)

\* lines 79-82: what sendto reports when connect fails
OnConnectError == Returned(None)

InitSend ==
    /\ pc = "ping" /\ target \in Targets /\ Echo = None /\ sock = "none"
    /\ wire = <<>> /\ received = <<>> /\ t1 = 0 /\ t2 = 0
    /\ cause = "none" /\ outcome = Returned(None) /\ pingOutcome = Returned(None)
    /\ IdleCodec /\ IdleSum

\* ping, line 103: Echo = ICMP_Echo(); line 104 enters sendto
PingStart ==
    /\ pc = "ping"
    /\ Echo' = DefaultEcho
    /\ pc' = "socket"
    /\ UNCHANGED <<target, sock, wire, received, t1, t2, cause, outcome, pingOutcome>>
    /\ UNCHANGED <<codecVars, sumVars>>

\* sendto, lines 75-76: socket.socket(AF_INET, SOCK_RAW, IPPROTO_ICMP) outside
\* any try block; without the privilege it raises PermissionError
OpenSocket ==
    /\ pc = "socket"
    /\ \/ /\ sock' = "open" /\ pc' = "connect"
          /\ UNCHANGED <<cause, outcome>>
       \/ /\ cause' = "socket_permission"
          /\ outcome' = Raised("PermissionError")
          /\ pc' = "ping_return"
          /\ UNCHANGED sock
    /\ UNCHANGED <<target, Echo, wire, received, t1, t2, pingOutcome>>
    /\ UNCHANGED <<codecVars, sumVars>>

\* sendto, lines 77-82: sock.connect((dest, 0))
Connect ==
    /\ pc = "connect"
    /\ \/ /\ pc' = "bytes"
          /\ UNCHANGED <<cause, outcome, sock>>
       \/ /\ cause' \in {"resolution", "connect_oserror"}
          /\ outcome' = OnConnectError
          /\ sock' \in Finalized(sock)
          /\ pc' = "ping_return"
    /\ UNCHANGED <<target, Echo, wire, received, t1, t2, pingOutcome>>
    /\ UNCHANGED <<codecVars, sumVars>>

\* sendto, line 83: icmp_payload = bytes(self)
Serialize ==
    /\ pc = "bytes"
    /\ Echo' = ICMP_Echo_bytes(Echo).self
    /\ wire' = ICMP_Echo_bytes(Echo).out
    /\ pc' = "send"
    /\ UNCHANGED <<target, sock, received, t1, t2, cause, outcome, pingOutcome>>
    /\ UNCHANGED <<codecVars, sumVars>>

\* sendto, lines 85-86: t1 = perf_counter(); sock.send(icmp_payload), outside
\* any try block
Send ==
    /\ pc = "send"
    /\ t1' \in 0..MaxClock
    /\ \/ /\ pc' = "recv"
          /\ UNCHANGED <<cause, outcome>>
       \/ /\ cause' = "send_oserror"
          /\ outcome' = Raised("OSError")
          /\ pc' = "ping_return"
    /\ UNCHANGED <<target, Echo, sock, wire, received, t2, pingOutcome>>
    /\ UNCHANGED <<codecVars, sumVars>>

\* sendto, lines 87-93: received = sock.recv(2 ** 16); only the timeout is
\* caught; t2 = perf_counter()
Recv ==
    /\ pc = "recv"
    /\ \/ /\ cause' = "timeout"
          /\ outcome' = OnTimeout
          /\ sock' \in Finalized(sock)
          /\ pc' = "ping_return"
          /\ UNCHANGED <<received, t2>>
       \/ /\ cause' = "recv_oserror"
          /\ outcome' = Raised("OSError")
          /\ pc' = "ping_return"
          /\ UNCHANGED <<received, t2, sock>>
       \/ /\ cause' = "datagram"
          /\ received' \in Datagrams(Echo)
          /\ t2' \in t1..(t1 + MaxElapsed)
          /\ pc' = "decode"
          /\ UNCHANGED <<outcome, sock>>
    /\ UNCHANGED <<target, Echo, wire, t1, pingOutcome>>
    /\ UNCHANGED <<codecVars, sumVars>>

\* received[20:]
StripIpHeader(buf) == IF Len(buf) <= 20 THEN <<>> ELSE SubSeq(buf, 21, Len(buf))

\* sendto, lines 94-98: strip 20 bytes, decode, attach the elapsed time
Decode ==
    /\ pc = "decode"
    /\ LET response == from_bytes(StripIpHeader(received))
       IN  IF response.exc # "none"
           THEN /\ outcome' = Raised(response.exc)
                /\ UNCHANGED sock
           ELSE /\ outcome' = Returned(Some([response.value EXCEPT !.response_time = t2 - t1]))
                /\ sock' \in Finalized(sock)
    /\ pc' = "ping_return"
    /\ UNCHANGED <<target, Echo, wire, received, t1, t2, cause, pingOutcome>>
    /\ UNCHANGED <<codecVars, sumVars>>

\* ping, lines 104-108: an exception of sendto propagates; None becomes -1
PingReturn ==
    /\ pc = "ping_return"
    /\ pingOutcome' =
         IF outcome.exc # "none" THEN Raised(outcome.exc)
         ELSE IF outcome.value # None THEN Returned(outcome.value[1].response_time)
         ELSE Returned(-1)
    /\ pc' = "done"
    /\ UNCHANGED <<target, Echo, sock, wire, received, t1, t2, cause, outcome>>
    /\ UNCHANGED <<codecVars, sumVars>>

NextSend ==
    \/ PingStart
    \/ OpenSocket
    \/ Connect
    \/ Serialize
    \/ Send
    \/ Recv
    \/ Decode
    \/ PingReturn

SpecSend == InitSend /\ [][NextSend]_vars

(***************************************************************************)
(* SpecSum: calculate_checksum as the loop it is, on payloads too long to  *)
(* enumerate.  The payload is one byte value repeated; its length is an    *)
(* input, chosen at the moment the loop reaches the end of the buffer, so   *)
(* that one run of the loop covers every length up to the message's limit. *)
(* Python's integers are unbounded: the running sum s is kept exactly, as  *)
(* s = sHi * 65536 + sLo with 0 <= sLo < 65536.                            *)
(***************************************************************************)
SumMessages ==
    { [icmp_type |-> "ECHO", code |-> 0, identifier |-> 63488, sequence |-> 0,
       fill |-> 255, limit |-> BigLen] }
    \cup { [icmp_type |-> t, code |-> 0, identifier |-> 1, sequence |-> 1,
            fill |-> f, limit |-> SmallLen] : t \in Types, f \in PayloadBytes }

\* line 44: the first eight bytes of the buffer, the checksum field zero
HeaderBytes(m) == Pack(TypeValue(m.icmp_type), m.code, 0, m.identifier, m.sequence, <<>>)

\* line 55 on the word at payload[i], payload[i+1] (i counted from 0), inside
\* the header or inside the data
WordAt(m, i) ==
    IF i < 8 THEN HeaderBytes(m)[i + 1] * 256 + HeaderBytes(m)[i + 2]
    ELSE m.fill * 256 + m.fill

InitSum ==
    /\ sumPc = "loop" /\ sumMsg \in SumMessages /\ sumLen = 0
    /\ idx = 0 /\ sHi = 0 /\ sLo = 0 /\ cksum = 0
    /\ IdleCodec /\ IdleSend

\* lines 52-55: one iteration on a word that lies wholly inside the buffer
SumStep ==
    /\ sumPc = "loop"
    /\ idx + 2 <= 8 + sumMsg.limit
    /\ LET lo == sLo + WordAt(sumMsg, idx)
       IN  /\ sLo' = lo % 65536
           /\ sHi' = sHi + (lo \div 65536)
    /\ idx' = idx + 2
    /\ sumLen' = IF idx < 8 THEN 0 ELSE sumLen + 2
    /\ UNCHANGED <<sumPc, sumMsg, cksum>>
    /\ UNCHANGED <<codecVars, sendVars>>

\* lines 47-48 and 52-55: the data ends after one more byte, so the last
\* iteration reads that byte and the zero pad byte
SumPadStep ==
    /\ sumPc = "loop"
    /\ idx >= 8
    /\ idx + 1 <= 8 + sumMsg.limit
    /\ LET lo == sLo + sumMsg.fill * 256 + 0
       IN  /\ sLo' = lo % 65536
           /\ sHi' = sHi + (lo \div 65536)
    /\ idx' = idx + 2
    /\ sumLen' = sumLen + 1
    /\ sumPc' = "fold"
    /\ UNCHANGED <<sumMsg, cksum>>
    /\ UNCHANGED <<codecVars, sendVars>>

\* lines 58-60: the loop is over, at the end of an even-length buffer or
\* after the padded word; fold and complement
SumFinish ==
    /\ \/ sumPc = "loop" /\ idx >= 8
       \/ sumPc = "fold"
    /\ cksum' = FoldTwice(sHi, sLo)
    /\ sumPc' = "done"
    /\ UNCHANGED <<sumMsg, sumLen, idx, sHi, sLo>>
    /\ UNCHANGED <<codecVars, sendVars>>

NextSum ==
    \/ SumStep
    \/ SumPadStep
    \/ SumFinish

SpecSum == InitSum /\ [][NextSum]_vars

(***************************************************************************)
(* Claims about the codec, checked under Spec.                             *)
(***************************************************************************)
\* the header fields and the payload of a message
Content(m) == <<m.icmp_type, m.code, m.identifier, m.sequence, m.data>>

\* C1: decoding the serialization of a message gives back a message with the
\* same type, code, identifier, sequence and payload, for every payload
\* length including 0 and the odd ones.
C1_RoundTrip ==
    (op = "from_bytes" /\ rx = ICMP_Echo_bytes(msg).out)
        => /\ ret.exc = "none"
           /\ Content(ret.value) = Content(msg)

\* C1 witness: an odd-length payload went through the round trip.
C1_Witness ==
    /\ op = "from_bytes" /\ rx = ICMP_Echo_bytes(msg).out
    /\ Len(msg.data) = 3 /\ msg.icmp_type = "REPLY" /\ msg.identifier = 65535
    /\ ret.exc = "none"

\* C3 (as claimed): a decoded message carries the checksum bytes 2..3 of the
\* buffer verbatim, so check_checksum() on it is true exactly when the
\* received checksum is the right one.
C3_ChecksumVerbatim ==
    (op = "from_bytes" /\ ret.exc = "none")
        => /\ ret.value.checksum = rx[3] * 256 + rx[4]
           /\ check_checksum(ret.value)
                 <=> (rx[3] * 256 + rx[4] = calculate_checksum(ret.value))

\* C5: a buffer shorter than 8 bytes, or one whose first byte is neither 8
\* nor 0, makes from_bytes fail and hand back no message; every other buffer
\* decodes, whatever its checksum bytes are.
C5_Malformed ==
    op = "from_bytes"
        => IF Len(rx) < 8 \/ rx[1] \notin {8, 0}
           THEN ret.exc \in {"struct.error", "ValueError"} /\ "value" \notin DOMAIN ret
           ELSE ret.exc = "none" /\ "value" \in DOMAIN ret

\* C5 witness: a full-length buffer with type byte 3 was refused.
C5_Witness ==
    /\ op = "from_bytes" /\ Len(rx) >= 8 /\ rx[1] = 3
    /\ ret.exc = "ValueError"

\* C6: the checksum is right just after construction, and bytes() always
\* emits, in bytes 2..3, the checksum of the current fields and leaves
\* check_checksum() true, whatever was assigned or overridden before.
C6_ChecksumFresh ==
    /\ op = "init" => check_checksum(msg)
    /\ op = "bytes"
         => /\ check_checksum(msg)
            /\ ret.value[3] = calculate_checksum(msg) \div 256
            /\ ret.value[4] = calculate_checksum(msg) % 256

\* C6 witness: bytes() was called on a message whose stored checksum was
\* out of date.
C6_Witness == op = "bytes" /\ stale /\ check_checksum(msg)

\* C8: bytes() is type, code, checksum, identifier, sequence (the 16-bit
\* fields high byte first) and then the payload as it is: 8 + len(payload)
\* bytes, with no pad byte.
C8_Layout ==
    op = "bytes"
        => LET out == ret.value
           IN  /\ Len(out) = 8 + Len(msg.data)
               /\ \A k \in 1..Len(out) : out[k] \in 0..255
               /\ out[1] = (IF msg.icmp_type = "ECHO" THEN 8 ELSE 0)
               /\ out[2] = msg.code
               /\ out[3] * 256 + out[4] = msg.checksum
               /\ out[5] * 256 + out[6] = msg.identifier
               /\ out[7] * 256 + out[8] = msg.sequence
               /\ \A k \in 1..Len(msg.data) : out[8 + k] = msg.data[k]

\* C8 witness: a message with an odd-length payload was serialized.
C8_Witness ==
    /\ op = "bytes" /\ Len(msg.data) = 1 /\ msg.identifier = 258
    /\ Len(ret.value) = 9

(***************************************************************************)
(* Claims about the exchange, checked under SpecSend.                      *)
(***************************************************************************)
\* sendto has reported to ping
SendtoEnded == pc \in {"ping_return", "done"}

\* a datagram arrived and from_bytes decoded what follows its first 20 bytes
ReplyDecoded ==
    cause = "datagram" /\ from_bytes(StripIpHeader(received)).exc = "none"

\* C2 (as claimed): ping never raises; it returns -1 whenever no reply was
\* received and decoded, and a time >= 0 only when one was.
C2_PingNeverRaises ==
    pc = "done"
        => /\ pingOutcome.exc = "none"
           /\ ~ReplyDecoded => pingOutcome.value = -1
           /\ pingOutcome.value >= 0 => ReplyDecoded

\* C4 (as claimed): no call of sendto ends with its socket still open.
C4_SocketClosed == SendtoEnded => sock # "open"

\* C7 (as claimed): what sendto reports for a connect failure or for a
\* refused raw socket differs from what it reports for a timeout.
C7_TransportDistinct ==
    (SendtoEnded /\ cause \in {"connect_oserror", "socket_permission"})
        => outcome # OnTimeout

\* C10 (as claimed): a message returned by sendto is an Echo Reply with the
\* identifier and the sequence number of the request.
C10_ReplyMatches ==
    (SendtoEnded /\ outcome.exc = "none" /\ outcome.value # None)
        => /\ outcome.value[1].icmp_type = "REPLY"
           /\ outcome.value[1].identifier = Echo.identifier
           /\ outcome.value[1].sequence = Echo.sequence

(***************************************************************************)
(* Claims about the checksum arithmetic, checked under SpecSum.            *)
(***************************************************************************)
\* the one's-complement sum of s = hi * 65536 + lo, folded until nothing is
\* left above bit 15
RECURSIVE FoldAll(_, _)
FoldAll(hi, lo) ==
    IF hi = 0 THEN lo ELSE FoldAll((hi + lo) \div 65536, (hi + lo) % 65536)

====
